---- MODULE Spec2Model ----
(***************************************************************************)
(* Trove: reference counting with an autorelease pool (src/src/trove.c,    *)
(* src/src/trove.h, src/src/macros.h, src/src/main.c).                     *)
(*                                                                         *)
(* Objects and pools live on a heap; an object is named by its index in    *)
(* `heap`, a pool by its index in `pools`; NULL is 0.  Every handler of    *)
(* trove.c is an operator from one memory (a record of the program state)  *)
(* to the set of memories it can leave behind: a singleton wherever the C  *)
(* code is defined, several outcomes where it touches freed storage.       *)
(***************************************************************************)
EXTENDS Integers, Sequences, FiniteSets

VARIABLES
    heap,                      \* Seq of ARCObject/TroveString storage
    pools,                     \* Seq of AutoreleasePool storage
    current_autorelease_pool,  \* trove.c:16, index into pools or NULL
    owners,                    \* per object: 1 + arc_retain calls - arc_release calls
    destroyed,                 \* per object: how often obj->dealloc was called on it
    misused,                   \* objects released with owners <= 0 / retained with owners <= 0
    status,                    \* "running" | "exit1" (exit(1)) | "crashed"
    last_call,                 \* the most recent call: function, argument, result,
                               \* destructors it called (in order), diagnostics it wrote
    trove_blocks,              \* TROVE blocks being executed, outermost first
    trove_left                 \* objects autoreleased in the body of a TROVE block already left

vars == <<heap, pools, current_autorelease_pool, owners, destroyed, misused,
          status, last_call, trove_blocks, trove_left>>

----------------------------------------------------------------------------
(* Bounds of the model.                                                    *)

\* objects created in a run
MaxObjs == 2
\* objects created in a run of SpecCount
MaxCounted == 1
\* pools allocated at one time
MaxPools == 2
\* registrations held by all pools together
MaxRegs == 2
\* owners an object is retained up to
MaxRef == 3
\* TROVE blocks nested in one another
MaxDepth == 2
\* registrations made in the pool of SpecGrow: past two doublings of its list
MaxGrown == 33

(* Program constants.                                                      *)

NULL == 0
InitialCapacity == 16

NullText == "<NULL>"
Texts == {NullText, "abc"}

NoDealloc == "NULL"
StringDealloc == "TroveString_dealloc"
CustomDealloc == "custom_dealloc"
HandingDealloc == "handing_dealloc"

MsgNoPool == "No autorelease pool in place!"
MsgPoolAlloc == "Failed to allocate autorelease pool."
MsgPoolObjectsAlloc == "Failed to allocate autorelease pool objects."
MsgRealloc == "Failed to reallocate autorelease pool objects."
MsgStringAlloc == "Failed to allocate TroveString."
MsgContentAlloc == "Failed to allocate string content."

----------------------------------------------------------------------------
(* The memory a call starts from; dealloc_log and stderr collect what the  *)
(* call does.                                                              *)
Mem ==
    [heap |-> heap, pools |-> pools, cur |-> current_autorelease_pool,
     owners |-> owners, destroyed |-> destroyed, misused |-> misused,
     status |-> status, dealloc_log |-> <<>>, stderr |-> <<>>]

Install(m) ==
    /\ heap' = m.heap
    /\ pools' = m.pools
    /\ current_autorelease_pool' = m.cur
    /\ owners' = m.owners
    /\ destroyed' = m.destroyed
    /\ misused' = m.misused
    /\ status' = m.status

Count(s, x) == Cardinality({i \in 1..Len(s) : s[i] = x})

(* The process is gone and its memory with it. *)
Terminated(m, how) ==
    [heap |-> <<>>, pools |-> <<>>, cur |-> NULL, owners |-> <<>>, destroyed |-> <<>>,
     misused |-> [over |-> {}, late |-> {}], status |-> how,
     dealloc_log |-> m.dealloc_log, stderr |-> m.stderr]

(* fprintf(stderr, msg); exit(1) *)
Fatal(m, msg) == Terminated([m EXCEPT !.stderr = Append(@, msg)], "exit1")

(* An access to freed storage that the process does not survive. *)
Crash(m) == Terminated(m, "crashed")


----------------------------------------------------------------------------
(* Call accounting, kept beside the program state: it counts the calls     *)
(* made on an object and takes no part in what the handlers compute.       *)

NoteRetain(m, obj) ==
    [m EXCEPT !.owners[obj] = @ + 1,
              !.misused.late = IF m.owners[obj] <= 0 THEN @ \cup {obj} ELSE @]

NoteRelease(m, obj) ==
    [m EXCEPT !.owners[obj] = @ - 1,
              !.misused.over = IF m.owners[obj] <= 0 THEN @ \cup {obj} ELSE @]

----------------------------------------------------------------------------
(* The list of a pool.                                                     *)

NewPool == [objects |-> <<>>, count |-> 0, capacity |-> InitialCapacity]

(* A list that grows by its initial size. *)
GrownCapacity_linear(capacity) == capacity + InitialCapacity

(* trove.c:80 *)
GrownCapacity(capacity) == capacity * 2

(* The new object stored in front of the others. *)
StoreObject_front(pool, obj) ==
    [pool EXCEPT !.objects = <<obj>> \o pool.objects, !.count = @ + 1]

(* trove.c:88 *)
StoreObject(pool, obj) ==
    [pool EXCEPT !.objects = [i \in 1..(pool.count + 1) |->
                                 IF i = pool.count + 1 THEN obj ELSE pool.objects[i]],
                 !.count = @ + 1]

(* A registration that opens a pool of its own when there is none. *)
autorelease_add_lazy(m, obj, okRealloc) ==
    IF m.cur = NULL
    THEN [m EXCEPT !.pools = Append(@, StoreObject(NewPool, obj)), !.cur = Len(m.pools) + 1]
    ELSE [m EXCEPT !.pools[m.cur] = StoreObject(m.pools[m.cur], obj)]

(* A list that is moved to new storage without its entries. *)
autorelease_add_emptied(m, obj, okRealloc) ==
    LET pool == m.pools[m.cur]
    IN  IF pool.count >= pool.capacity
        THEN [m EXCEPT !.pools[m.cur] =
                 StoreObject([pool EXCEPT !.capacity = GrownCapacity(@),
                                          !.objects = [i \in 1..pool.count |-> NULL]], obj)]
        ELSE [m EXCEPT !.pools[m.cur] = StoreObject(pool, obj)]

(* autorelease_add, trove.c:73-89.  okRealloc says whether realloc succeeds. *)
autorelease_add(m, obj, okRealloc) ==
    IF m.cur = NULL
    THEN [m EXCEPT !.stderr = Append(@, MsgNoPool)]
    ELSE LET pool == m.pools[m.cur]
         IN  IF pool.count >= pool.capacity
             THEN IF ~okRealloc
                  THEN Fatal(m, MsgRealloc)
                  ELSE [m EXCEPT !.pools[m.cur] =
                           StoreObject([pool EXCEPT !.capacity = GrownCapacity(@)], obj)]
             ELSE [m EXCEPT !.pools[m.cur] = StoreObject(pool, obj)]

----------------------------------------------------------------------------
(* TroveString_dealloc, trove.c:188-194: frees the text, then the object.  *)
(* Called on storage that is already freed it is a double free.            *)

(* Freed storage holds nothing a program can rely on: the model keeps one  *)
(* record for it, and ReleaseFreed and RetainFreed decide a later access.  *)
FreedObject(object) ==
    [object EXCEPT !.ref_count = 0, !.str = "", !.str_freed = TRUE, !.freed = TRUE]

TroveString_dealloc(m, obj) ==
    IF m.heap[obj].freed
    THEN {Crash(m), m}
    ELSE {[m EXCEPT !.heap[obj] = FreedObject(@)]}

(* A destructor call that also takes the object off every pool's list. *)
CallDealloc_unregistering(m, obj) ==
    LET Other(x) == x # obj
        Without(pool) == [pool EXCEPT !.objects = SelectSeq(pool.objects, Other),
                                      !.count = Len(SelectSeq(pool.objects, Other))]
    IN  {[m EXCEPT !.dealloc_log = Append(@, obj), !.destroyed[obj] = @ + 1,
                   !.pools = [p \in 1..Len(m.pools) |-> Without(m.pools[p])]]}

(* A destructor of a consumer's type that hands the object's member to the *)
(* current pool: arc_autorelease(self->member), trove.c:139-142.           *)
Handing_dealloc(m, obj) ==
    {autorelease_add(m, m.heap[obj].member, okRealloc) : okRealloc \in BOOLEAN}

(* obj->dealloc(obj), trove.c:124.  A destructor of a consumer's own type  *)
(* keeps the storage: CustomDealloc is observed through the log only,      *)
(* HandingDealloc autoreleases the member besides.                         *)
CallDealloc(m, obj) ==
    LET logged == [m EXCEPT !.dealloc_log = Append(@, obj), !.destroyed[obj] = @ + 1]
    IN  IF m.heap[obj].dealloc = StringDealloc
        THEN TroveString_dealloc(logged, obj)
        ELSE IF m.heap[obj].dealloc = HandingDealloc
        THEN Handing_dealloc(logged, obj)
        ELSE {logged}

(* The test that tells exactly zero from below zero. *)
CountExhausted_zero(rc) == rc = 0

(* The test that takes the last owner but one for the last. *)
CountExhausted_early(rc) == rc <= 1

(* The test written with < in place of <=. *)
CountExhausted_strict(rc) == rc < 0

(* trove.c:122 *)
CountExhausted(rc) == rc <= 0

(* trove.c:121-126, with the value read from obj->ref_count given *)
ReleaseFrom(m, obj, rc) ==
    LET stored == [m EXCEPT !.heap[obj].ref_count = rc - 1]
    IN  IF CountExhausted(rc - 1) /\ m.heap[obj].dealloc # NoDealloc
        THEN CallDealloc(stored, obj)
        ELSE {stored}

(* A retain that counts twice. *)
RetainFrom_twice(m, obj, rc) == [m EXCEPT !.heap[obj].ref_count = rc + 2]

(* A retain that forgets the increment. *)
RetainFrom_lost(m, obj, rc) == [m EXCEPT !.heap[obj].ref_count = rc]

(* trove.c:106, with the value read from obj->ref_count given *)
RetainFrom(m, obj, rc) == [m EXCEPT !.heap[obj].ref_count = rc + 1]

(* obj->ref_count-- and the test of trove.c:121-122 on freed storage: the  *)
(* process may not survive the access; if it does, the value it finds is   *)
(* anything, so the count it computes is positive (nothing more happens)   *)
(* or not (the pointer found in obj->dealloc is called).                   *)
ReleaseFreed(m, obj) == {Crash(m), m} \cup CallDealloc(m, obj)

(* obj->ref_count++ of trove.c:106 on freed storage *)
RetainFreed(m, obj) == {Crash(m), m}

(* arc_retain, trove.c:104-108 *)
arc_retain(m, obj) ==
    IF obj = NULL
    THEN {m}
    ELSE LET noted == NoteRetain(m, obj)
         IN  IF m.heap[obj].freed
             THEN RetainFreed(noted, obj)
             ELSE {RetainFrom(noted, obj, m.heap[obj].ref_count)}

(* arc_release, trove.c:119-128 *)
arc_release(m, obj) ==
    IF obj = NULL
    THEN {m}
    ELSE LET noted == NoteRelease(m, obj)
         IN  IF m.heap[obj].freed
             THEN ReleaseFreed(noted, obj)
             ELSE ReleaseFrom(noted, obj, m.heap[obj].ref_count)

----------------------------------------------------------------------------
(* Autorelease pools.                                                      *)

(* A push whose pool starts with the entries of the pool it replaces. *)
autorelease_pool_push_inheriting(m, okPool, okObjects) ==
    [m EXCEPT !.pools = Append(@, IF m.cur = NULL THEN NewPool ELSE m.pools[m.cur]),
              !.cur = Len(m.pools) + 1]

(* autorelease_pool_push, trove.c:28-43.  okPool and okObjects say whether *)
(* the two malloc calls succeed.                                           *)
autorelease_pool_push(m, okPool, okObjects) ==
    IF ~okPool
    THEN Fatal(m, MsgPoolAlloc)
    ELSE IF ~okObjects
    THEN Fatal(m, MsgPoolObjectsAlloc)
    ELSE [m EXCEPT !.pools = Append(@, NewPool), !.cur = Len(m.pools) + 1]

(* The loop run from the last registration down to the first. *)
RECURSIVE ReleaseAll_reversed(_, _, _)
ReleaseAll_reversed(m, p, i) ==
    IF m.status # "running" \/ ~(i < m.pools[p].count)
    THEN {m}
    ELSE UNION {ReleaseAll_reversed(n, p, i + 1) :
                   n \in arc_release(m, m.pools[p].objects[m.pools[p].count - i])}

(* The loop of trove.c:56-58 from index i (0-based as in the source); it   *)
(* reads pool->count and pool->objects[i] anew on every iteration.         *)
RECURSIVE ReleaseAll(_, _, _)
ReleaseAll(m, p, i) ==
    IF m.status # "running" \/ ~(i < m.pools[p].count)
    THEN {m}
    ELSE UNION {ReleaseAll(n, p, i + 1) : n \in arc_release(m, m.pools[p].objects[i + 1])}

RemovePool(ps, p) ==
    [i \in 1..(Len(ps) - 1) |-> IF i < p THEN ps[i] ELSE ps[i + 1]]

(* The slot set back to the pool pushed before p, as a stack would. *)
DiscardPool_restoring(m, p) ==
    [m EXCEPT !.pools = RemovePool(m.pools, p), !.cur = p - 1]

(* The storage given back, the slot left pointing at it. *)
DiscardPool_dangling(m, p) ==
    [m EXCEPT !.pools[p] = NewPool]

(* trove.c:59-61: the storage of pool p is given back, the slot cleared *)
DiscardPool(m, p) ==
    [m EXCEPT !.pools = RemovePool(m.pools, p), !.cur = NULL]

(* A pop that, finding no current pool, falls back on the last pool pushed. *)
autorelease_pool_pop_fallback(m) ==
    LET p == IF m.cur = NULL THEN Len(m.pools) ELSE m.cur
    IN  IF p = 0
        THEN {m}
        ELSE {IF n.status = "running" THEN DiscardPool(n, p) ELSE n :
                 n \in ReleaseAll(m, p, 0)}

(* A pop that clears the slot before it releases the list. *)
autorelease_pool_pop_detaching(m) ==
    IF m.cur = NULL
    THEN {m}
    ELSE {IF n.status = "running" THEN DiscardPool(n, m.cur) ELSE n :
             n \in ReleaseAll([m EXCEPT !.cur = NULL], m.cur, 0)}

(* autorelease_pool_pop, trove.c:52-62 *)
autorelease_pool_pop(m) ==
    IF m.cur = NULL
    THEN {m}
    ELSE {IF n.status = "running" THEN DiscardPool(n, m.cur) ELSE n :
             n \in ReleaseAll(m, m.cur, 0)}

(* arc_autorelease, trove.c:139-142: the memory left and the value returned *)
arc_autorelease(m, obj, okRealloc) ==
    [mem |-> autorelease_add(m, obj, okRealloc), ret |-> obj]

----------------------------------------------------------------------------
(* Constructors.                                                           *)

(* strdup(init) / strdup(""), trove.c:166-170 *)
InitialText(init) == IF init # NullText THEN init ELSE ""

(* An object that starts with two owners. *)
NewObject_two(dealloc, str) ==
    [ref_count |-> 2, dealloc |-> dealloc, str |-> str, member |-> NULL,
     str_freed |-> FALSE, freed |-> FALSE]

(* The header as a constructor sets it, trove.c:164-165, with the text *)
NewObject(dealloc, str) ==
    [ref_count |-> 1, dealloc |-> dealloc, str |-> str, member |-> NULL,
     str_freed |-> FALSE, freed |-> FALSE]

(* Storage for one more object, with its call accounting started. *)
Allocate(m, object) ==
    [m EXCEPT !.heap = Append(@, object), !.owners = Append(@, 1),
              !.destroyed = Append(@, 0)]

(* A constructor that hands its object to the current pool, if there is one. *)
TroveString_create_autoreleased(m, init, okObject, okText) ==
    LET made == Allocate(m, NewObject(StringDealloc, InitialText(init)))
    IN  [mem |-> IF m.cur = NULL THEN made ELSE autorelease_add(made, Len(m.heap) + 1, TRUE),
         ret |-> Len(m.heap) + 1]

(* TroveString_create, trove.c:158-177.  okObject and okText say whether   *)
(* malloc and strdup succeed.                                              *)
TroveString_create(m, init, okObject, okText) ==
    IF ~okObject
    THEN [mem |-> Fatal(m, MsgStringAlloc), ret |-> NULL]
    ELSE IF ~okText
    THEN [mem |-> Fatal(m, MsgContentAlloc), ret |-> NULL]
    ELSE [mem |-> Allocate(m, NewObject(StringDealloc, InitialText(init))),
          ret |-> Len(m.heap) + 1]

(* An object of a consumer's own type, built to the contract of            *)
(* trove.h:18-27: the header first, ref_count 1, dealloc set or NULL.      *)
ARCObject_create(m, dealloc) ==
    [mem |-> Allocate(m, NewObject(dealloc, "")), ret |-> Len(m.heap) + 1]

(* An object of a consumer's type that holds a reference to another object *)
(* and whose destructor autoreleases it.                                   *)
Holder_create(m, member) ==
    [mem |-> Allocate(m, [NewObject(HandingDealloc, "") EXCEPT !.member = member]),
     ret |-> Len(m.heap) + 1]

----------------------------------------------------------------------------
(* The program: calls a single thread of control makes, one per step.      *)

(* pool is the current pool the call found, m the memory it left. *)
Call(op, obj, ret, m) ==
    [op |-> op, obj |-> obj, ret |-> ret, pool |-> current_autorelease_pool,
     dealloc |-> m.dealloc_log, stderr |-> m.stderr]

Objs == 1..Len(heap)

Running == status = "running"

(* Registrations held by all pools together. *)
RECURSIVE Registrations(_)
Registrations(ps) == IF ps = <<>> THEN 0 ELSE Head(ps).count + Registrations(Tail(ps))

Init ==
    /\ heap = <<>>
    /\ pools = <<>>
    /\ current_autorelease_pool = NULL
    /\ owners = <<>>
    /\ destroyed = <<>>
    /\ misused = [over |-> {}, late |-> {}]
    /\ status = "running"
    /\ last_call = [op |-> "start", obj |-> NULL, ret |-> NULL, pool |-> NULL,
                    dealloc |-> <<>>, stderr |-> <<>>]
    /\ trove_blocks = <<>>
    /\ trove_left = {}

(* TroveString_create(text), text one of texts *)
CreateString(texts) ==
    /\ Running
    /\ Len(heap) < MaxObjs
    /\ \E text \in texts, okObject \in BOOLEAN, okText \in BOOLEAN :
          LET r == TroveString_create(Mem, text, okObject, okText)
          IN  /\ Install(r.mem)
              /\ last_call' = Call("TroveString_create", NULL, r.ret, r.mem)
    /\ UNCHANGED <<trove_blocks, trove_left>>

(* type_create(...) of a consumer's type, its destructor one of deallocs *)
CreateObject(deallocs) ==
    /\ Running
    /\ Len(heap) < MaxObjs
    /\ \E dealloc \in deallocs :
          LET r == ARCObject_create(Mem, dealloc)
          IN  /\ Install(r.mem)
              /\ last_call' = Call("ARCObject_create", NULL, r.ret, r.mem)
    /\ UNCHANGED <<trove_blocks, trove_left>>

(* type_create(member), member an object made before *)
CreateHolder ==
    /\ Running
    /\ Len(heap) < MaxObjs
    /\ \E member \in Objs :
          LET r == Holder_create(Mem, member)
          IN  /\ Install(r.mem)
              /\ last_call' = Call("Holder_create", member, r.ret, r.mem)
    /\ UNCHANGED <<trove_blocks, trove_left>>

(* The calls explored on one object stop after its first retain with no   *)
(* owner left and after its first release with no owner left.              *)
RetainExplored(obj) == owners[obj] < MaxRef /\ obj \notin misused.late

ReleaseExplored(obj) == obj \notin misused.over

(* A pool is popped only if that releases no object explored to its end    *)
(* and takes no object further than one release past its last owner.       *)
PopExplored ==
    current_autorelease_pool # NULL =>
       \A obj \in Objs :
          LET registered == Count(pools[current_autorelease_pool].objects, obj)
          IN  registered > 0 => ReleaseExplored(obj) /\ registered <= owners[obj] + 1

(* RETAIN(obj), macros.h:57 *)
RETAIN ==
    /\ Running
    /\ \E obj \in {NULL} \cup Objs :
          /\ obj # NULL => RetainExplored(obj)
          /\ \E n \in arc_retain(Mem, obj) :
                /\ Install(n)
                /\ last_call' = Call("arc_retain", obj, NULL, n)
    /\ UNCHANGED <<trove_blocks, trove_left>>

(* RELEASE(obj), macros.h:64 *)
RELEASE ==
    /\ Running
    /\ \E obj \in {NULL} \cup Objs :
          /\ obj # NULL => ReleaseExplored(obj)
          /\ \E n \in arc_release(Mem, obj) :
                /\ Install(n)
                /\ last_call' = Call("arc_release", obj, NULL, n)
    /\ UNCHANGED <<trove_blocks, trove_left>>

(* arc_autorelease(obj) *)
Autorelease ==
    /\ Running
    /\ Registrations(pools) < MaxRegs
    /\ \E obj \in {NULL} \cup Objs, okRealloc \in BOOLEAN :
          LET r == arc_autorelease(Mem, obj, okRealloc)
          IN  /\ Install(r.mem)
              /\ last_call' = Call("arc_autorelease", obj, r.ret, r.mem)
    /\ UNCHANGED <<trove_blocks, trove_left>>

(* AUTORELEASE_POOL_PUSH(), macros.h:73 *)
AUTORELEASE_POOL_PUSH ==
    /\ Running
    /\ Len(pools) < MaxPools
    /\ \E okPool \in BOOLEAN, okObjects \in BOOLEAN :
          LET n == autorelease_pool_push(Mem, okPool, okObjects)
          IN  /\ Install(n)
              /\ last_call' = Call("autorelease_pool_push", NULL, NULL, n)
    /\ UNCHANGED <<trove_blocks, trove_left>>

(* AUTORELEASE_POOL_POP(), macros.h:78 *)
AUTORELEASE_POOL_POP ==
    /\ Running
    /\ PopExplored
    /\ \E n \in autorelease_pool_pop(Mem) :
          /\ Install(n)
          /\ last_call' = Call("autorelease_pool_pop", NULL, NULL, n)
    /\ UNCHANGED <<trove_blocks, trove_left>>

(* The TROVE block of macros.h:97,                                        *)
(*   for (int _trove_once = (autorelease_pool_push(), 1); _trove_once;     *)
(*        autorelease_pool_pop(), _trove_once = 0)                         *)
(* as main.c:22-30 uses it.  A block being executed is a record of its     *)
(* loop variable and of the objects its body has autoreleased.             *)

(* The init clause and the first test of the condition: the body is entered. *)
TROVE_enter ==
    /\ Running
    /\ Len(trove_blocks) < MaxDepth
    /\ Len(pools) < MaxPools
    /\ \E okPool \in BOOLEAN, okObjects \in BOOLEAN :
          LET n == autorelease_pool_push(Mem, okPool, okObjects)
          IN  /\ Install(n)
              /\ last_call' = Call("autorelease_pool_push", NULL, NULL, n)
              /\ trove_blocks' = IF n.status = "running"
                                 THEN Append(trove_blocks, [trove_once |-> 1, body |-> {}])
                                 ELSE <<>>
              /\ trove_left' = IF n.status = "running" THEN trove_left ELSE {}

(* String(text) in the body of the innermost block, trove.h:139, main.c:26 *)
TROVE_String ==
    /\ Running
    /\ trove_blocks # <<>>
    /\ Len(heap) < MaxObjs
    /\ \E text \in Texts, okObject \in BOOLEAN, okText \in BOOLEAN, okRealloc \in BOOLEAN :
          LET c == TroveString_create(Mem, text, okObject, okText)
              r == IF c.mem.status = "running"
                   THEN arc_autorelease(c.mem, c.ret, okRealloc)
                   ELSE c
              top == Len(trove_blocks)
          IN  /\ Install(r.mem)
              /\ last_call' = Call("String", NULL, r.ret, r.mem)
              /\ trove_blocks' = IF r.mem.status = "running"
                                 THEN [trove_blocks EXCEPT ![top].body = @ \cup {r.ret}]
                                 ELSE <<>>
              /\ trove_left' = IF r.mem.status = "running" THEN trove_left ELSE {}

(* The end of the body: the increment clause, then the condition, which    *)
(* lets the loop go round again only if _trove_once is still set.          *)
TROVE_leave ==
    /\ Running
    /\ trove_blocks # <<>>
    /\ PopExplored
    /\ \E n \in autorelease_pool_pop(Mem) :
          LET top == Len(trove_blocks)
              stepped == [trove_blocks[top] EXCEPT !.trove_once = 0]
          IN  /\ Install(n)
              /\ last_call' = Call("autorelease_pool_pop", NULL, NULL, n)
              /\ IF n.status # "running"
                 THEN trove_blocks' = <<>> /\ trove_left' = {}
                 ELSE IF stepped.trove_once # 0
                 THEN trove_blocks' = [trove_blocks EXCEPT ![top] = stepped]
                      /\ trove_left' = trove_left
                 ELSE trove_blocks' = SubSeq(trove_blocks, 1, top - 1)
                      /\ trove_left' = trove_left \cup stepped.body

(* arc_autorelease(obj) on the objects in turn: the one after the object   *)
(* registered last, the first object after the last.                       *)
InTurn(count) == (count % Len(heap)) + 1

AutoreleaseInTurn ==
    /\ Running
    /\ heap # <<>>
    /\ current_autorelease_pool # NULL
    /\ pools[current_autorelease_pool].count < MaxGrown
    /\ \E okRealloc \in BOOLEAN :
          LET obj == InTurn(pools[current_autorelease_pool].count)
              r == arc_autorelease(Mem, obj, okRealloc)
          IN  /\ Install(r.mem)
              /\ last_call' = Call("arc_autorelease", obj, r.ret, r.mem)
    /\ UNCHANGED <<trove_blocks, trove_left>>

(* A pool is popped once for an object: not again after a pop has taken    *)
(* the object past its last owner.                                         *)
PopOnce ==
    current_autorelease_pool # NULL =>
       \A i \in 1..pools[current_autorelease_pool].count :
          ReleaseExplored(pools[current_autorelease_pool].objects[i])

(* The list of the pool a pop is about to release. *)
Found == IF current_autorelease_pool = NULL
         THEN <<>>
         ELSE pools[current_autorelease_pool].objects

(* AUTORELEASE_POOL_POP() of a pool of any size; the call is recorded with *)
(* the list it found.                                                      *)
POP_recorded ==
    /\ Running
    /\ PopOnce
    /\ \E n \in autorelease_pool_pop(Mem) :
          /\ Install(n)
          /\ last_call' = [op |-> "autorelease_pool_pop", obj |-> NULL, ret |-> NULL,
                           pool |-> current_autorelease_pool, released |-> Found,
                           dealloc |-> n.dealloc_log, stderr |-> n.stderr]
    /\ UNCHANGED <<trove_blocks, trove_left>>

Next ==
    \/ CreateString({"abc"})
    \/ CreateObject({CustomDealloc})
    \/ Autorelease
    \/ AUTORELEASE_POOL_PUSH
    \/ AUTORELEASE_POOL_POP

Spec == Init /\ [][Next]_vars

(* Reference counting alone, on objects of every kind. *)
NextCount ==
    \/ Len(heap) < MaxCounted /\ CreateObject({NoDealloc, CustomDealloc})
    \/ Len(heap) < MaxCounted /\ CreateString(Texts)
    \/ RETAIN
    \/ RELEASE

SpecCount == Init /\ [][NextCount]_vars

(* One pool at a time, filled past its initial capacity. *)
NextGrow ==
    \/ CreateObject({CustomDealloc})
    \/ pools = <<>> /\ AUTORELEASE_POOL_PUSH
    \/ AutoreleaseInTurn
    \/ POP_recorded

SpecGrow == Init /\ [][NextGrow]_vars

(* Objects whose destructors autorelease other objects. *)
NextHanding ==
    \/ CreateObject({CustomDealloc})
    \/ CreateHolder
    \/ pools = <<>> /\ AUTORELEASE_POOL_PUSH
    \/ Autorelease
    \/ POP_recorded

SpecHanding == Init /\ [][NextHanding]_vars

(* Strings of every initial text, made while a pool is or is not in place. *)
NextCreate ==
    \/ CreateString(Texts)
    \/ pools = <<>> /\ AUTORELEASE_POOL_PUSH
    \/ Autorelease
    \/ POP_recorded

SpecCreate == Init /\ [][NextCreate]_vars

(* Objects with owners of their own beside the pools they are registered in. *)
NextShared ==
    \/ Len(heap) < MaxCounted /\ CreateObject({CustomDealloc})
    \/ Len(heap) < MaxCounted /\ CreateString({"abc"})
    \/ RETAIN
    \/ RELEASE
    \/ Autorelease
    \/ pools = <<>> /\ AUTORELEASE_POOL_PUSH
    \/ POP_recorded

SpecShared == Init /\ [][NextShared]_vars

(* A program made of TROVE blocks, nested or one after the other. *)
NextTrove ==
    \/ TROVE_enter
    \/ TROVE_String
    \/ TROVE_leave

SpecTrove == Init /\ [][NextTrove]_vars

----------------------------------------------------------------------------
(* Properties.                                                             *)

HasDealloc(o) == heap[o].dealloc # NoDealloc

IsString(o) == heap[o].dealloc = StringDealloc

(* No release was made on o with no owner left, and no retain either. *)
WellBehaved(o) == o \notin misused.over /\ o \notin misused.late

(* The count of o has been at or below zero at some point. *)
WasExhausted(o) == owners[o] <= 0 \/ o \in misused.late

(* C1 as stated: for an object with a destructor and any sequence of       *)
(* arc_retain/arc_release calls in which releases never exceed retains + 1, *)
(* the destructor has been called once if the count has reached <= 0 and   *)
(* not at all before that; never a second time.                            *)
C1_OnceUnlessOverReleased ==
    \A o \in Objs :
       HasDealloc(o) /\ o \notin misused.over =>
          destroyed[o] = IF WasExhausted(o) THEN 1 ELSE 0

(* C1 amended: the same, for sequences that also make no arc_retain on the *)
(* object once its count has reached <= 0.                                 *)
C1_OnceIfWellBehaved ==
    \A o \in Objs :
       HasDealloc(o) /\ WellBehaved(o) =>
          destroyed[o] = IF owners[o] <= 0 THEN 1 ELSE 0

(* An object retained and released back to one owner, then released: its   *)
(* destructor has just run, for the first time.                            *)
C1_Witness ==
    \E o \in Objs :
       /\ HasDealloc(o) /\ WellBehaved(o)
       /\ last_call.op = "arc_release" /\ last_call.obj = o
       /\ last_call.dealloc = <<o>>
       /\ owners[o] = 0 /\ destroyed[o] = 1

(* C7: while an object has never been without an owner, its ref_count is   *)
(* 1 + retains - releases and its destructor has not run; so n retains     *)
(* followed by n releases leave ref_count 1 and the object alive.          *)
C7_RetainReleaseInverse ==
    \A o \in Objs :
       WellBehaved(o) /\ owners[o] >= 1 =>
          /\ heap[o].ref_count = owners[o]
          /\ destroyed[o] = 0
          /\ ~heap[o].freed

(* A release has just brought an object back to ref_count 1: as many       *)
(* releases as retains, at least one of each.                              *)
C7_Witness ==
    \E o \in Objs :
       /\ WellBehaved(o)
       /\ last_call.op = "arc_release" /\ last_call.obj = o
       /\ owners[o] = 1 /\ heap[o].ref_count = 1 /\ destroyed[o] = 0

----------------------------------------------------------------------------
(* Properties of the pool, stated on the steps of Spec.  A step is told by *)
(* the call it records; the pool it found is current_autorelease_pool.     *)

Popped == last_call'.op = "autorelease_pool_pop" /\ status' = "running"

Pushed == last_call'.op = "autorelease_pool_push" /\ status' = "running"

Autoreleased == last_call'.op = "arc_autorelease" /\ status' = "running"

Current == pools[current_autorelease_pool]

(* How often o is registered in all pools together. *)
RECURSIVE Registered(_, _)
Registered(ps, o) ==
    IF ps = <<>> THEN 0 ELSE Count(Head(ps).objects, o) + Registered(Tail(ps), o)

IsSet(seq) == \A i, j \in 1..Len(seq) : seq[i] = seq[j] => i = j

(* C2: a pop of a pool whose registrations are distinct objects, each with *)
(* ref_count 1 and a destructor, calls the destructors in the order of     *)
(* registration.                                                           *)
C2_PopInRegistrationOrder ==
    [][(/\ Popped /\ current_autorelease_pool # NULL
        /\ IsSet(Current.objects)
        /\ \A i \in 1..Current.count :
              /\ Current.objects[i] # NULL
              /\ ~heap[Current.objects[i]].freed
              /\ heap[Current.objects[i]].ref_count = 1
              /\ HasDealloc(Current.objects[i]))
       => last_call'.dealloc = Current.objects]_vars

(* A pop has destroyed object 2, then object 1: the order they were        *)
(* registered in, not the order they were created in.                      *)
C2_Witness ==
    /\ last_call.op = "autorelease_pool_pop"
    /\ last_call.dealloc = <<2, 1>>
    /\ status = "running"

(* C3: a pop of an active pool makes one arc_release call per registration *)
(* (owners counts the calls); the ref_count of every object whose storage  *)
(* outlives the pop has gone down by the number of its registrations; an   *)
(* object not registered in the pool is as it was; the other pools are as  *)
(* they were; the slot is NULL.                                            *)
C3_PopReleasesEachRegistrationOnce ==
    [][(Popped /\ current_autorelease_pool # NULL) =>
          /\ current_autorelease_pool' = NULL
          /\ pools' = RemovePool(pools, current_autorelease_pool)
          /\ Len(last_call'.dealloc) <= Current.count
          /\ \A o \in Objs :
                LET n == Count(Current.objects, o)
                IN  /\ owners'[o] = owners[o] - n
                    /\ ~heap'[o].freed => heap'[o].ref_count = heap[o].ref_count - n
                    /\ n = 0 => heap'[o] = heap[o] /\ destroyed'[o] = destroyed[o]]_vars

(* A pop has released an object registered twice and left another, not     *)
(* registered, alone.                                                      *)
C3_Witness ==
    /\ last_call.op = "autorelease_pool_pop" /\ last_call.pool # NULL
    /\ status = "running"
    /\ current_autorelease_pool = NULL
    /\ \E o, u \in Objs :
          /\ ~heap[o].freed /\ heap[o].ref_count = 0 - 1 /\ owners[o] = 0 - 1
          /\ heap[u].ref_count = 1 /\ owners[u] = 1

(* An object with its one owner, registered once, in a pool. *)
Pending(o) == owners[o] = 1 /\ WellBehaved(o) /\ Registered(pools, o) = 1

Readable(o) ==
    /\ ~heap[o].freed /\ ~heap[o].str_freed
    /\ heap[o].ref_count = 1
    /\ destroyed[o] = 0
    /\ IsString(o) => heap[o].str = "abc"

(* C4: an object created, autoreleased once and not retained or released   *)
(* otherwise is alive, with its text readable, in every state in which its *)
(* pool has not been popped; the pop of that pool calls its destructor     *)
(* once, and a TroveString is freed by it.                                 *)
C4_AliveUntilPop ==
    [][/\ \A o \in 1..Len(heap') : Pending(o)' => Readable(o)'
       /\ (Popped /\ current_autorelease_pool # NULL) =>
             \A o \in Objs :
                (Pending(o) /\ Count(Current.objects, o) = 1) =>
                   /\ destroyed'[o] = 1
                   /\ Count(last_call'.dealloc, o) = 1
                   /\ IsString(o) => heap'[o].freed /\ heap'[o].str_freed]_vars

(* A pop has just destroyed a TroveString that it found registered. *)
C4_Witness ==
    /\ last_call.op = "autorelease_pool_pop"
    /\ status = "running"
    /\ \E o \in Objs :
          /\ IsString(o) /\ WellBehaved(o)
          /\ last_call.dealloc = <<o>>
          /\ heap[o].freed /\ destroyed[o] = 1 /\ owners[o] = 0

(* C6: a pool that is not the current one is never the current one again,  *)
(* never changed and never discarded; a push leaves the pool it found as   *)
(* it was and makes a new one current; a pop leaves the slot NULL whatever *)
(* pools were pushed before, and releases no object that is registered     *)
(* only in them.                                                           *)
C6_OverwrittenPoolIsLeaked ==
    [][status' = "running" =>
          /\ \A p \in 1..Len(pools) :
                p # current_autorelease_pool =>
                   /\ p <= Len(pools') /\ pools'[p] = pools[p]
                   /\ current_autorelease_pool' # p
          /\ (Pushed /\ current_autorelease_pool # NULL) =>
                /\ current_autorelease_pool' = Len(pools) + 1
                /\ pools'[current_autorelease_pool] = Current
          /\ Popped =>
                /\ current_autorelease_pool' = NULL
                /\ \A o \in Objs :
                      (current_autorelease_pool = NULL \/ Count(Current.objects, o) = 0)
                         => owners'[o] = owners[o] /\ heap'[o] = heap[o]]_vars

(* After push, autorelease(a), push, pop: the slot is NULL while the first *)
(* pool still holds a, which nothing has released.                         *)
C6_Witness ==
    /\ last_call.op = "autorelease_pool_pop" /\ last_call.pool = 2
    /\ current_autorelease_pool = NULL
    /\ Len(pools) = 1
    /\ \E a \in Objs :
          /\ pools[1].objects = <<a>>
          /\ owners[a] = 1 /\ destroyed[a] = 0 /\ ~heap[a].freed

(* C8: arc_autorelease(obj) with a pool active makes obj the last entry of *)
(* that pool after the entries it had, returns obj, and changes nothing    *)
(* else: no ref_count, no other pool, not the slot; no destructor runs.    *)
C8_AutoreleaseAppends ==
    [][(Autoreleased /\ current_autorelease_pool # NULL) =>
          /\ last_call'.ret = last_call'.obj
          /\ current_autorelease_pool' = current_autorelease_pool
          /\ Len(pools') = Len(pools)
          /\ \A p \in 1..Len(pools) : p # current_autorelease_pool => pools'[p] = pools[p]
          /\ pools'[current_autorelease_pool].objects
                = Append(Current.objects, last_call'.obj)
          /\ pools'[current_autorelease_pool].count = Current.count + 1
          /\ heap' = heap /\ owners' = owners /\ destroyed' = destroyed
          /\ misused' = misused
          /\ last_call'.dealloc = <<>> /\ last_call'.stderr = <<>>]_vars

(* An object has been added behind a different entry. *)
C8_Witness ==
    /\ last_call.op = "arc_autorelease" /\ last_call.pool # NULL
    /\ last_call.obj # NULL /\ last_call.ret = last_call.obj
    /\ status = "running"
    /\ current_autorelease_pool = last_call.pool
    /\ pools[current_autorelease_pool].count = 2
    /\ pools[current_autorelease_pool].objects[2] = last_call.obj
    /\ pools[current_autorelease_pool].objects[1] # last_call.obj

(* C9: arc_autorelease with no current pool returns, having written the    *)
(* diagnostic and changed nothing: the slot is NULL, no pool holds the     *)
(* object, no count has moved.  No later pop releases the object for it:   *)
(* a pool pushed later starts empty and a pop releases only what is        *)
(* registered in the pool it pops.                                         *)
C9_AutoreleaseWithoutPool ==
    [][/\ (last_call'.op = "arc_autorelease" /\ current_autorelease_pool = NULL) =>
             /\ status' = "running"
             /\ last_call'.stderr = <<MsgNoPool>> /\ last_call'.dealloc = <<>>
             /\ current_autorelease_pool' = NULL
             /\ pools' = pools
             /\ heap' = heap /\ owners' = owners /\ destroyed' = destroyed
       /\ Pushed => pools'[current_autorelease_pool'] = NewPool
       /\ Popped =>
             \A o \in Objs :
                (current_autorelease_pool = NULL \/ Count(Current.objects, o) = 0)
                   => owners'[o] = owners[o]]_vars

(* An object was autoreleased with no pool in place and is held by none. *)
C9_Witness ==
    /\ last_call.op = "arc_autorelease" /\ last_call.pool = NULL
    /\ last_call.obj # NULL
    /\ last_call.stderr = <<MsgNoPool>>
    /\ status = "running"
    /\ Registered(pools, last_call.obj) = 0
    /\ owners[last_call.obj] = 1

(* C10: autorelease_pool_pop with no current pool changes nothing: the     *)
(* slot stays NULL, pools and objects are as they were, no destructor      *)
(* runs, nothing is written and the process goes on.                       *)
C10_PopWithoutPool ==
    [][(last_call'.op = "autorelease_pool_pop" /\ current_autorelease_pool = NULL) =>
          /\ status' = "running"
          /\ current_autorelease_pool' = NULL
          /\ pools' = pools
          /\ heap' = heap /\ owners' = owners /\ destroyed' = destroyed
          /\ misused' = misused
          /\ last_call'.dealloc = <<>> /\ last_call'.stderr = <<>>]_vars

(* A pop found no current pool while an earlier pool still held an object. *)
C10_Witness ==
    /\ last_call.op = "autorelease_pool_pop" /\ last_call.pool = NULL
    /\ status = "running"
    /\ current_autorelease_pool = NULL
    /\ Len(pools) = 1 /\ pools[1].count > 0
    /\ \E o \in Objs : pools[1].objects[1] = o /\ owners[o] = 1

(* C5: every object autoreleased in the body of a TROVE block that has     *)
(* been left has been released once.                                       *)
C5_BlockReleasesItsObjects ==
    \A o \in trove_left : owners[o] = 0 /\ destroyed[o] = 1

(* C11: a pool starts empty, whatever was registered and popped before it, *)
(* and a pop releases only what is registered in the pool it pops, that is *)
(* what was autoreleased since the most recent push: an object registered  *)
(* in an earlier pool is not released and its destructor does not run.     *)
C11_PoolIsolation ==
    [][/\ Pushed =>
             /\ pools'[current_autorelease_pool'].objects = <<>>
             /\ pools'[current_autorelease_pool'].count = 0
       /\ (Popped /\ current_autorelease_pool # NULL) =>
             \A o \in Objs :
                /\ Count(last_call'.dealloc, o) <= Count(Current.objects, o)
                /\ Count(Current.objects, o) = 0 =>
                      /\ owners'[o] = owners[o]
                      /\ destroyed'[o] = destroyed[o]
       /\ (Popped /\ current_autorelease_pool = NULL) =>
             last_call'.dealloc = <<>> /\ owners' = owners]_vars

(* push; autorelease(1); pop; push; autorelease(2); pop: the second pop    *)
(* has destroyed object 2 alone, object 1 was destroyed once, before it.   *)
C11_Witness ==
    /\ last_call.op = "autorelease_pool_pop" /\ last_call.pool # NULL
    /\ status = "running"
    /\ pools = <<>>
    /\ Len(heap) = 2
    /\ last_call.dealloc = <<2>>
    /\ owners[1] = 0 /\ destroyed[1] = 1
    /\ owners[2] = 0 /\ destroyed[2] = 1

----------------------------------------------------------------------------
(* Properties of a pool that grows, stated on the steps of SpecGrow.       *)

Max(a, b) == IF a >= b THEN a ELSE b

(* Destructor calls that n releases make on an object whose storage stays  *)
(* allocated and whose count is rc: one for each release that leaves the   *)
(* count at or below zero.                                                 *)
DeallocCalls(rc, n) == IF rc >= 1 THEN Max(0, n - rc + 1) ELSE n

(* C12: every arc_autorelease into a pool, those that grow the list        *)
(* included, leaves the list as it was with the object added at its end    *)
(* and count one higher; the pop of the pool makes one arc_release call    *)
(* per registration: each object's count goes down by the number of its    *)
(* registrations and its destructor runs at every release that leaves the  *)
(* count at or below zero.                                                 *)
C12_GrowthPreservesContents ==
    [][/\ (Autoreleased /\ current_autorelease_pool # NULL) =>
             /\ pools'[current_autorelease_pool].objects
                   = Append(Current.objects, last_call'.obj)
             /\ pools'[current_autorelease_pool].count = Current.count + 1
             /\ Len(Current.objects) = Current.count
       /\ (Popped /\ current_autorelease_pool # NULL) =>
             /\ Len(last_call'.dealloc) <= Current.count
             /\ \A o \in Objs :
                   LET n == Count(Current.objects, o)
                   IN  /\ owners'[o] = owners[o] - n
                       /\ heap'[o].ref_count = heap[o].ref_count - n
                       /\ Count(last_call'.dealloc, o)
                             = DeallocCalls(heap[o].ref_count, n)]_vars

(* A pop has released a list that had grown twice: more registrations than *)
(* twice the initial capacity, shared by two objects.                      *)
C12_Witness ==
    /\ last_call.op = "autorelease_pool_pop" /\ last_call.pool # NULL
    /\ status = "running"
    /\ Len(last_call.dealloc) > 2 * InitialCapacity
    /\ Len(heap) >= 2
    /\ owners[1] + owners[2] = 2 - Len(last_call.dealloc)
    /\ owners[1] < 0 /\ owners[2] < 0

(* 16 * 2^j for some j >= 0 *)
RECURSIVE IsCapacity(_)
IsCapacity(c) ==
    \/ c = InitialCapacity
    \/ c > InitialCapacity /\ c % 2 = 0 /\ IsCapacity(c \div 2)

(* C17: after every step each pool has 0 <= count <= capacity and a        *)
(* capacity of 16 * 2^j; a push makes a pool with count 0 and capacity 16; *)
(* an arc_autorelease into a pool doubles its capacity if count equalled   *)
(* capacity before the call and leaves the capacity alone otherwise.       *)
C17_CapacityDoubles ==
    [][status' = "running" =>
          /\ \A p \in 1..Len(pools') :
                /\ 0 <= pools'[p].count
                /\ pools'[p].count <= pools'[p].capacity
                /\ IsCapacity(pools'[p].capacity)
          /\ Pushed =>
                /\ pools'[current_autorelease_pool'].count = 0
                /\ pools'[current_autorelease_pool'].capacity = InitialCapacity
          /\ (Autoreleased /\ current_autorelease_pool # NULL) =>
                pools'[current_autorelease_pool].capacity
                   = IF Current.count = Current.capacity
                     THEN 2 * Current.capacity
                     ELSE Current.capacity]_vars

(* The registration that filled a list of 32 has grown it to 64. *)
C17_Witness ==
    /\ last_call.op = "arc_autorelease"
    /\ status = "running"
    /\ current_autorelease_pool # NULL
    /\ pools[current_autorelease_pool].count = 2 * InitialCapacity + 1
    /\ pools[current_autorelease_pool].capacity = 4 * InitialCapacity

----------------------------------------------------------------------------
(* Properties of objects that are both owned and registered, stated on the *)
(* steps of SpecShared.                                                    *)

Released == last_call'.op = "arc_release" /\ status' = "running"

(* C13: the pop of a pool in which an object is registered once, the       *)
(* object having k >= 1 owners beside the one the pool stands for, leaves  *)
(* it alive with ref_count k; an arc_release of an object that has never   *)
(* been without an owner runs its destructor if it takes the last owner    *)
(* and not otherwise; and as long as an object has an owner, the pool      *)
(* counted as one for each registration it has released, its ref_count is  *)
(* the number of its owners and it has not been destroyed.                 *)
C13_RetainedSurvivesPop ==
    [][/\ (Popped /\ current_autorelease_pool # NULL) =>
             \A o \in Objs :
                (Count(Current.objects, o) = 1 /\ WellBehaved(o) /\ owners[o] >= 2) =>
                   /\ heap'[o].ref_count = owners[o] - 1
                   /\ ~heap'[o].freed
                   /\ destroyed'[o] = 0
                   /\ Count(last_call'.dealloc, o) = 0
       /\ (Released /\ last_call'.obj # NULL) =>
             LET o == last_call'.obj
             IN  (WellBehaved(o) /\ owners[o] >= 1) =>
                    last_call'.dealloc
                       = IF owners[o] = 1 /\ HasDealloc(o) THEN <<o>> ELSE <<>>
       /\ status' = "running" =>
             \A o \in 1..Len(heap') :
                (WellBehaved(o)' /\ owners'[o] >= 1) =>
                   /\ heap'[o].ref_count = owners'[o]
                   /\ ~heap'[o].freed
                   /\ destroyed'[o] = 0]_vars

(* A pop has released the one registration of an object that two other     *)
(* owners had retained: it is alive with ref_count 2.                      *)
C13_Witness ==
    /\ last_call.op = "autorelease_pool_pop" /\ last_call.pool # NULL
    /\ status = "running"
    /\ \E o \in Objs :
          /\ last_call.released = <<o>>
          /\ last_call.dealloc = <<>>
          /\ WellBehaved(o) /\ IsString(o)
          /\ owners[o] = 2 /\ heap[o].ref_count = 2
          /\ ~heap[o].freed /\ destroyed[o] = 0

----------------------------------------------------------------------------
(* Over-release, stated on the steps of SpecCount.                         *)

(* The call is arc_release(o), o an object with a destructor that has no   *)
(* owner left: its count is at or below zero already.                      *)
OverReleasing(o) ==
    /\ last_call'.op = "arc_release" /\ last_call'.obj = o
    /\ HasDealloc(o)
    /\ owners[o] <= 0

(* C14 as stated: arc_release on an object whose count is already <= 0     *)
(* takes the count one lower and calls the destructor again.               *)
C14_OverReleaseDestroysAgain ==
    [][\A o \in Objs :
          OverReleasing(o) =>
             /\ status' = "running"
             /\ last_call'.dealloc = <<o>>
             /\ destroyed'[o] = destroyed[o] + 1]_vars

(* C14 amended: the same for an object whose storage is still allocated,   *)
(* its destructor not having freed it: the count goes one lower, below     *)
(* zero, and the destructor is called once more.  On storage that was      *)
(* freed the call, if it returns, has called the destructor at most once.  *)
C14_OverReleaseOfLiveStorage ==
    [][\A o \in Objs :
          OverReleasing(o) =>
             IF ~heap[o].freed
             THEN /\ status' = "running"
                  /\ heap'[o].ref_count = heap[o].ref_count - 1
                  /\ heap'[o].ref_count < 0
                  /\ last_call'.dealloc = <<o>>
                  /\ destroyed'[o] = destroyed[o] + 1
             ELSE status' = "running" =>
                     /\ Len(last_call'.dealloc) <= 1
                     /\ heap'[o] = heap[o]]_vars

(* A second release has called the destructor of an object a second time   *)
(* and left its count at -1.                                               *)
C14_Witness ==
    \E o \in Objs :
       /\ last_call.op = "arc_release" /\ last_call.obj = o
       /\ status = "running"
       /\ ~heap[o].freed /\ o \notin misused.late
       /\ last_call.dealloc = <<o>>
       /\ heap[o].ref_count = 0 - 1 /\ owners[o] = 0 - 1
       /\ destroyed[o] = 2

----------------------------------------------------------------------------
(* The constructor, stated on the steps of SpecCreate.                     *)

Created == last_call'.op = "TroveString_create" /\ status' = "running"

(* C15: TroveString_create that returns, whatever its argument, returns a  *)
(* new object with ref_count 1, TroveString_dealloc as its destructor and  *)
(* a text of its own, registered in no pool; the current pool, the pools   *)
(* and every other object are as they were and no destructor has run.      *)
C15_ConstructorPostconditions ==
    [][Created =>
          LET o == last_call'.ret
          IN  /\ o # NULL /\ o \notin Objs
              /\ heap'[o].ref_count = 1
              /\ heap'[o].dealloc = StringDealloc
              /\ ~heap'[o].freed /\ ~heap'[o].str_freed
              /\ heap'[o].str \in {"", "abc"}
              /\ owners'[o] = 1 /\ destroyed'[o] = 0
              /\ Registered(pools', o) = 0
              /\ current_autorelease_pool' = current_autorelease_pool
              /\ pools' = pools
              /\ \A u \in Objs :
                    /\ heap'[u] = heap[u]
                    /\ owners'[u] = owners[u]
                    /\ destroyed'[u] = destroyed[u]
              /\ last_call'.dealloc = <<>> /\ last_call'.stderr = <<>>]_vars

(* TroveString_create(NULL) has returned an object with the empty text     *)
(* while a pool was in place that holds another object.                    *)
C15_Witness ==
    /\ last_call.op = "TroveString_create" /\ last_call.ret = 2
    /\ status = "running"
    /\ heap[2].str = "" /\ heap[2].ref_count = 1 /\ heap[2].dealloc = StringDealloc
    /\ last_call.pool # NULL
    /\ current_autorelease_pool = last_call.pool
    /\ pools[current_autorelease_pool].objects = <<1>>
    /\ heap[1].ref_count = 1 /\ heap[1].str = "abc"

----------------------------------------------------------------------------
(* arc_retain and arc_release as to what they leave alone, stated on the   *)
(* steps of SpecShared.                                                    *)

----------------------------------------------------------------------------
(* Registrations of objects that are destroyed before the pop, stated on   *)
(* the steps of SpecShared.                                                *)

(* The pool being popped lists o once; o has a destructor, which has run   *)
(* once, at the release that took its last owner.                          *)
DestroyedBeforePop(o) ==
    /\ last_call'.op = "autorelease_pool_pop"
    /\ current_autorelease_pool # NULL
    /\ Count(Current.objects, o) = 1
    /\ HasDealloc(o) /\ WellBehaved(o)
    /\ owners[o] = 0 /\ destroyed[o] = 1

(* C18 as stated: no call but arc_autorelease and the pop changes a pool's *)
(* list, and the pop of a pool that lists an object already released to    *)
(* zero releases it again and calls its destructor a second time.          *)
C18_PopDestroysAgain ==
    [][/\ (status' = "running"
            /\ last_call'.op \notin {"arc_autorelease", "autorelease_pool_pop",
                                      "autorelease_pool_push"}) => pools' = pools
       /\ \A o \in Objs :
             DestroyedBeforePop(o) =>
                /\ status' = "running"
                /\ owners'[o] = 0 - 1
                /\ Count(last_call'.dealloc, o) = 1
                /\ destroyed'[o] = 2]_vars

(* C18 amended: the same where the storage of the object is still          *)
(* allocated, its destructor not having freed it; where it was freed the   *)
(* pop still makes the release, on freed storage, and if it returns it     *)
(* has called the destructor at most once more.                            *)
C18_PopReleasesDestroyed ==
    [][/\ (status' = "running"
            /\ last_call'.op \notin {"arc_autorelease", "autorelease_pool_pop",
                                      "autorelease_pool_push"}) => pools' = pools
       /\ \A o \in Objs :
             DestroyedBeforePop(o) =>
                IF ~heap[o].freed
                THEN Popped =>
                        /\ owners'[o] = 0 - 1
                        /\ heap'[o].ref_count = 0 - 1
                        /\ Count(last_call'.dealloc, o) = 1
                        /\ destroyed'[o] = 2
                ELSE Popped =>
                        /\ owners'[o] = 0 - 1
                        /\ Count(last_call'.dealloc, o) <= 1
                        /\ destroyed'[o] \in {1, 2}]_vars

(* A pop has released the one entry of its list, an object that an         *)
(* arc_release had destroyed before: the destructor has run a second time. *)
C18_Witness ==
    /\ last_call.op = "autorelease_pool_pop" /\ last_call.pool # NULL
    /\ status = "running"
    /\ \E o \in Objs :
          /\ last_call.released = <<o>>
          /\ last_call.dealloc = <<o>>
          /\ ~heap[o].freed /\ o \notin misused.late
          /\ heap[o].ref_count = 0 - 1 /\ owners[o] = 0 - 1
          /\ destroyed[o] = 2

----------------------------------------------------------------------------
(* Destructors that autorelease, stated on the steps of SpecHanding.       *)

(* How often the destructor of an object whose member is o is in the log. *)
HandedOver(log, o) ==
    Cardinality({i \in 1..Len(log) :
                    /\ heap[log[i]].dealloc = HandingDealloc
                    /\ heap[log[i]].member = o})

(* C19: a pop that returns has found its pool in the slot at every         *)
(* arc_autorelease a destructor made while it ran: none has reported a     *)
(* missing pool, and every object has been released once for each          *)
(* registration the pop found and once for each time a destructor handed   *)
(* it over during the pop; the pool is gone with all of them and the slot  *)
(* is NULL.                                                                *)
C19_DestructorRegistersInPoppedPool ==
    [][(Popped /\ current_autorelease_pool # NULL) =>
          /\ last_call'.stderr = <<>>
          /\ current_autorelease_pool' = NULL
          /\ pools' = RemovePool(pools, current_autorelease_pool)
          /\ \A o \in Objs :
                LET n == Count(Current.objects, o) + HandedOver(last_call'.dealloc, o)
                IN  /\ owners'[o] = owners[o] - n
                    /\ heap'[o].ref_count = heap[o].ref_count - n
                    /\ Count(last_call'.dealloc, o) = DeallocCalls(heap[o].ref_count, n)]_vars

(* A pop found object 2 alone in its list; the destructor of 2 handed its  *)
(* member 1 to the pool and the same pop has released and destroyed 1.     *)
C19_Witness ==
    /\ last_call.op = "autorelease_pool_pop" /\ last_call.pool # NULL
    /\ status = "running"
    /\ current_autorelease_pool = NULL /\ pools = <<>>
    /\ Len(heap) = 2
    /\ heap[2].dealloc = HandingDealloc /\ heap[2].member = 1
    /\ last_call.released = <<2>>
    /\ last_call.dealloc = <<2, 1>>
    /\ last_call.stderr = <<>>
    /\ owners[1] = 0 /\ destroyed[1] = 1 /\ heap[1].ref_count = 0

====
